---- MODULE Spec2Model ----
(***************************************************************************)
(* Model of the STM32 ADC v2 driver (embassy-stm32/src/adc/v2.rs).         *)
(*                                                                         *)
(* The register block of the peripheral is the record `regs`; the common   *)
(* register CCR is `ccr`.  Control bits hold the value the driver wrote    *)
(* last; the converter itself is the pair of hardware actions HwStart and  *)
(* HwEoc, which raise the status flags, load the data register and feed    *)
(* the DMA stream.                                                         *)
(***************************************************************************)
EXTENDS Integers, Sequences, FiniteSets, TLC

VARIABLES
    pc,               \* position of the (single) owner of the driver
    regs,             \* ADC register block: CR1, CR2, SR, DR, SQRx, SMPRx
    ccr,              \* common control register: ADCPRE, TSVREFE
    hw,               \* converter: pending software trigger, conversion running
    sample_time,      \* Adc::sample_time field
    vref_count,       \* reference-enable counter kept by update_vref
    vrefs,            \* number of live Vref handles
    xfer,             \* DMA transfer and its destination buffer
    snap,             \* get_dma_buf: the local copy `buf` and the copy index
    build,            \* build: overflow checks on (panic) or off (wrap); F2 chip or not
    calc,             \* inputs and result of the pure computation applied last
    last              \* operation performed last and what it saw at entry

vars == <<pc, regs, ccr, hw, sample_time, vref_count, vrefs, xfer, snap,
          build, calc, last>>

-----------------------------------------------------------------------------
(* Bounds of the model *)

\* longest channel list handed to set_channel_sample_sequence, beyond the
\* over-long list of AssertLen + 1 entries
MaxList == 2
\* live Vref handles
MaxVref == 2
\* length of the DMA destination buffer
BufLen == 2
\* buffer contents recorded in the history of the destination buffer
MaxSeen == 3

\* channel ids used: one per sample-time bank, and the internal reference
\* (VrefInt, channel 17), which lies outside the lookup range 0..16
Channels == {0, 10, 17}
\* sequence positions used (config::Sequence::One, Three, Seven)
Positions == {1, 3, 7}
\* SampleTime bits used by the register operations (Cycles3, Cycles15)
RegSampleTimes == {0, 1}
\* conversion results delivered by the converter
Codes == {1, 2}

-----------------------------------------------------------------------------
(* Registers *)

\* number of SQ slots in SQR3, SQR2, SQR1 and of SMP slots in SMPR2, SMPR1
Sqr3Len == 6
Sqr2Len == 6
Sqr1Len == 4
Smpr2Len == 10
Smpr1Len == 9

\* list length accepted by set_channel_sample_sequence
AssertLen == 8

\* register block after T::enable_and_reset()
RegsReset ==
    [adon |-> FALSE, swstart |-> FALSE, cont |-> FALSE, dma |-> FALSE,
     dds |-> FALSE, eocs |-> FALSE,
     scan |-> FALSE, discen |-> FALSE, eocie |-> FALSE, res |-> 0,
     strt |-> FALSE, eoc |-> FALSE, dr |-> 0,
     l |-> 0,
     sqr3 |-> [i \in 0..(Sqr3Len - 1) |-> 0],
     sqr2 |-> [i \in 0..(Sqr2Len - 1) |-> 0],
     sqr1 |-> [i \in 0..(Sqr1Len - 1) |-> 0],
     smpr2 |-> [i \in 0..(Smpr2Len - 1) |-> 0],
     smpr1 |-> [i \in 0..(Smpr1Len - 1) |-> 0]]

\* cr2().write(|reg| reg.set_adon(false)): every CR2 field takes its reset value
Cr2Write(r) ==
    [r EXCEPT !.adon = FALSE, !.swstart = FALSE, !.cont = FALSE,
              !.dma = FALSE, !.dds = FALSE, !.eocs = FALSE]

HwIdle == [pending |-> FALSE, busy |-> FALSE]

\* what a write of CR2 does to the converter: clearing ADON stops it, setting
\* SWSTART with ADON set requests a conversion
HwAfter(h, r, started) ==
    IF ~r.adon THEN HwIdle
    ELSE IF started /\ r.swstart THEN [h EXCEPT !.pending = TRUE]
    ELSE h

-----------------------------------------------------------------------------
(* Power helpers of the driver (Adc::is_on, start_adc, stop_adc) *)

is_on(r) == r.adon

start_adc(r) == [r EXCEPT !.adon = TRUE]

stop_adc(r) == [r EXCEPT !.adon = FALSE]

-----------------------------------------------------------------------------
(* Sample-time registers *)

Panic == -1

get_channel_sample_time(r, ch) ==
    CASE ch \in 0..9 -> r.smpr2[ch]
      [] ch \in 10..16 -> r.smpr1[ch - 10]
      [] OTHER -> Panic

set_channel_sample_time(r, ch, st) ==
    IF ch <= 9 THEN [r EXCEPT !.smpr2[ch] = st]
    ELSE [r EXCEPT !.smpr1[ch - 10] = st]

RECURSIVE set_channels_sample_time(_, _, _)
set_channels_sample_time(r, chs, st) ==
    IF chs = <<>> THEN r
    ELSE set_channels_sample_time(set_channel_sample_time(r, Head(chs), st),
                                  Tail(chs), st)

\* result of an operation on the register block: the registers it leaves,
\* whether it panicked on the way, and the values ADON held at the moments it
\* wrote a field that is to be written with the peripheral disabled
Ok(r) == [regs |-> r, panic |-> FALSE, adon_at_write |-> {}]
Panicked(r) == [regs |-> r, panic |-> TRUE, adon_at_write |-> {}]
Wrote(r, on) == [regs |-> r, panic |-> FALSE, adon_at_write |-> {on}]

\* set_sample_time that stops a running peripheral and does not start it again
set_sample_time_no_restart(r, ch, st) ==
    IF get_channel_sample_time(r, ch) = Panic THEN Panicked(r)
    ELSE IF get_channel_sample_time(r, ch) # st
    THEN Wrote(set_channel_sample_time(
                   (IF is_on(r) THEN stop_adc(r) ELSE r), ch, st), FALSE)
    ELSE Ok(r)

\* Adc::set_sample_time(pin, sample_time), the per-channel one
set_sample_time(r, ch, st) ==
    IF get_channel_sample_time(r, ch) = Panic THEN Panicked(r)
    ELSE IF get_channel_sample_time(r, ch) # st
    THEN LET was_on == is_on(r)
             r1 == IF was_on THEN stop_adc(r) ELSE r
             r2 == set_channel_sample_time(r1, ch, st)
             r3 == IF was_on THEN start_adc(r2) ELSE r2
         IN Wrote(r3, is_on(r1))
    ELSE Ok(r)

-----------------------------------------------------------------------------
(* Conversion sequence *)

\* config::Sequence <-> the 4-bit field SQR1.L (zero-based length)
SequenceToBits(sequence) == sequence - 1
SequenceFromBits(bits) == bits + 1

\* the length update without its comparison with the previous length
sequence_length_overwrite(r, sequence) ==
    [r EXCEPT !.l = SequenceToBits(sequence)]

\* the length update of set_sample_sequence
sequence_length(r, sequence) ==
    LET prev == SequenceFromBits(r.l)
    IN IF prev < sequence
       THEN [r EXCEPT !.l = SequenceToBits(sequence)]
       ELSE [r EXCEPT !.l = SequenceToBits(prev)]

\* the match of set_sample_sequence: positions 1..6 go to SQR3, 7..12 to SQR2,
\* 13..16 to SQR1, each with set_sq(position - 1, channel); set_sq panics on an
\* index past the slots of its register
sequence_slot(r, sequence, ch) ==
    LET n == sequence - 1
    IN CASE sequence \in 1..6 ->
              IF n < Sqr3Len THEN Ok([r EXCEPT !.sqr3[n] = ch]) ELSE Panicked(r)
         [] sequence \in 7..12 ->
              IF n < Sqr2Len THEN Ok([r EXCEPT !.sqr2[n] = ch]) ELSE Panicked(r)
         [] OTHER ->
              IF n < Sqr1Len THEN Ok([r EXCEPT !.sqr1[n] = ch]) ELSE Panicked(r)

set_sample_sequence(r, sequence, ch, st) ==
    LET was_on == is_on(r)
        r1 == IF ~was_on THEN start_adc(r) ELSE r
        r2 == sequence_length(r1, sequence)
        w  == sequence_slot(r2, sequence, ch)
        r4 == IF ~was_on THEN stop_adc(w.regs) ELSE w.regs
        r5 == set_channels_sample_time(r4, <<ch>>, st)
    IN IF w.panic THEN Panicked(r2) ELSE Wrote(r5, is_on(r4))

\* the three loops of set_channel_sample_sequence: at most 6 into SQR3, then 6
\* into SQR2, then 4 into SQR1, each from slot 0 of its register
RECURSIVE sequence_fill(_, _, _)
sequence_fill(r, seq, i) ==
    IF i > Len(seq) \/ i > Sqr3Len + Sqr2Len + Sqr1Len THEN r
    ELSE sequence_fill(
            (IF i <= Sqr3Len THEN [r EXCEPT !.sqr3[i - 1] = seq[i]]
             ELSE IF i <= Sqr3Len + Sqr2Len
                  THEN [r EXCEPT !.sqr2[i - 1 - Sqr3Len] = seq[i]]
                  ELSE [r EXCEPT !.sqr1[i - 1 - Sqr3Len - Sqr2Len] = seq[i]]),
            seq, i + 1)

\* (sequence.len() - 1) as u8, masked to the 4 bits of L by set_l; an empty
\* list underflows the subtraction: usize::MAX wraps to 255, masked 15
sequence_len_bits(seq) ==
    IF Len(seq) = 0 THEN 255 % 16 ELSE (Len(seq) - 1) % 16

set_channel_sample_sequence(r, seq, checks) ==
    IF ~(Len(seq) <= AssertLen) THEN Panicked(r)
    ELSE LET was_on == is_on(r)
             r1 == IF ~was_on THEN start_adc(r) ELSE r
             r2 == [r1 EXCEPT !.l = sequence_len_bits(seq)]
             r3 == sequence_fill(r2, seq, 1)
             r4 == IF ~was_on THEN stop_adc(r3) ELSE r3
         IN IF Len(seq) = 0 /\ checks THEN Panicked(r1) ELSE Ok(r4)

\* convert() without its clearing of EOC
convert_clear_eoc_skipped(r) == r

\* convert(), first write: sr().modify clears EOC and writes the other status
\* flags back as read, which leaves them as they are
convert_clear_eoc(r) == [r EXCEPT !.eoc = FALSE]

\* convert(), second write: ADON and SWSTART are set together
convert_start(r) == [r EXCEPT !.adon = TRUE, !.swstart = TRUE]

-----------------------------------------------------------------------------
(* Initial states *)

\* the builds the model follows: debug and release, for a chip other than F2
Builds == [overflow_checks : BOOLEAN, stm32f2 : {FALSE}]
\* ... and with the F2 variant, where only the clock limit differs
AllBuilds == [overflow_checks : BOOLEAN, stm32f2 : BOOLEAN]

NoCalc == [op |-> "none"]
NoLast == [op |-> "none", adon0 |-> FALSE, ch |-> 0, arg |-> 0,
           adon_at_write |-> {}]
\* seen: the contents the destination buffer has held so far, recorded while
\* they are at most MaxSeen; beyond that the record is given up (complete is
\* FALSE) and says nothing about what the buffer has held
NoXfer == [live |-> FALSE, running |-> FALSE, widx |-> 0,
           buf |-> [i \in 0..(BufLen - 1) |-> 0],
           seen |-> [complete |-> TRUE,
                     held |-> {[i \in 0..(BufLen - 1) |-> 0]}]]
NoSnap == [buf |-> [i \in 0..(BufLen - 1) |-> 0], idx |-> 0]

\* before Adc::new(): the peripheral is in reset
Unconstructed ==
    /\ pc = "uninit"
    /\ regs = RegsReset
    /\ ccr = [adcpre |-> 2, tsvrefe |-> FALSE]
    /\ hw = HwIdle
    /\ sample_time = 0
    /\ vref_count = 0
    /\ vrefs = 0
    /\ xfer = NoXfer
    /\ snap = NoSnap
    /\ build \in AllBuilds
    /\ calc = NoCalc
    /\ last = NoLast

\* after Adc::new() on a bus clock that needs no more than the divider 2
Constructed ==
    /\ pc = "ready"
    /\ regs = [RegsReset EXCEPT !.adon = TRUE]
    /\ ccr = [adcpre |-> 2, tsvrefe |-> FALSE]
    /\ hw = HwIdle
    /\ sample_time = 0
    /\ vref_count = 0
    /\ vrefs = 0
    /\ xfer = NoXfer
    /\ snap = NoSnap
    /\ build \in Builds
    /\ calc = NoCalc
    /\ last = NoLast

-----------------------------------------------------------------------------
(* Operations of the sequence and sample-time configuration *)

\* op: the operation; adon0: ADON at its entry; ch: its channel; arg: its
\* sequence position or list length; adon_at_write: see Ok
Entry(op, ch, arg) ==
    [op |-> op, adon0 |-> regs.adon, ch |-> ch, arg |-> arg,
     adon_at_write |-> {}]

\* an operation that ran on the register block: it returned or it panicked
Finish(res, started) ==
    /\ regs' = res.regs
    /\ hw' = HwAfter(hw, res.regs, started)
    /\ pc' = IF res.panic THEN "aborted" ELSE "ready"

\* Adc::set_sample_time(sample_time), the one that sets the default
SetDefaultSampleTime ==
    /\ pc = "ready"
    /\ \E st \in RegSampleTimes :
          /\ sample_time' = st
          /\ last' = Entry("set_default_sample_time", 0, 0)
    /\ UNCHANGED <<pc, regs, ccr, hw, vref_count, vrefs, xfer, snap,
                   build, calc>>

SetSampleTime ==
    /\ pc = "ready"
    /\ \E ch \in Channels, st \in RegSampleTimes :
          LET res == set_sample_time(regs, ch, st)
          IN /\ Finish(res, FALSE)
             /\ sample_time' =
                   IF ~res.panic /\ get_channel_sample_time(regs, ch) # st
                   THEN st ELSE sample_time
             /\ last' = [Entry("set_sample_time", ch, 0)
                           EXCEPT !.adon_at_write = res.adon_at_write]
    /\ UNCHANGED <<ccr, vref_count, vrefs, xfer, snap, build, calc>>

SetSampleSequence ==
    /\ pc = "ready"
    /\ \E sequence \in Positions, ch \in Channels, st \in RegSampleTimes :
          LET res == set_sample_sequence(regs, sequence, ch, st)
          IN /\ Finish(res, FALSE)
             /\ last' = [Entry("set_sample_sequence", ch, sequence)
                           EXCEPT !.adon_at_write = res.adon_at_write]
    /\ UNCHANGED <<ccr, sample_time, vref_count, vrefs, xfer, snap,
                   build, calc>>

\* channel lists of 0..MaxList entries, and one of AssertLen + 1 entries
ChannelLists ==
    UNION {[1..n -> Channels] : n \in 0..MaxList}
      \cup {[i \in 1..(AssertLen + 1) |-> 0]}

SetChannelSampleSequence ==
    /\ pc = "ready"
    /\ \E seq \in ChannelLists :
          /\ Finish(set_channel_sample_sequence(regs, seq, build.overflow_checks), FALSE)
          /\ last' = Entry("set_channel_sample_sequence", 0, Len(seq))
    /\ UNCHANGED <<ccr, sample_time, vref_count, vrefs, xfer, snap,
                   build, calc>>

\* read(pin): program the one-element sequence, then convert() up to the
\* clearing of EOC
Read ==
    /\ pc = "ready"
    /\ \E ch \in Channels :
          LET res == set_channel_sample_sequence(regs, <<ch>>, build.overflow_checks)
              r2 == convert_clear_eoc(res.regs)
          IN /\ regs' = r2
             /\ hw' = HwAfter(hw, r2, FALSE)
             /\ pc' = "convert"
             /\ last' = Entry("read", ch, 1)
    /\ UNCHANGED <<ccr, sample_time, vref_count, vrefs, xfer, snap,
                   build, calc>>

\* convert(): the conversion is started
ConvertStart ==
    /\ pc = "convert"
    /\ regs' = convert_start(regs)
    /\ hw' = HwAfter(hw, regs', TRUE)
    /\ pc' = "wait_strt"
    /\ UNCHANGED <<ccr, sample_time, vref_count, vrefs, xfer, snap,
                   build, calc, last>>

\* while T::regs().sr().read().strt() == false {}
ConvertWaitStrt ==
    /\ pc = "wait_strt"
    /\ regs.strt
    /\ pc' = "wait_eoc"
    /\ UNCHANGED <<regs, ccr, hw, sample_time, vref_count, vrefs, xfer, snap,
                   build, calc, last>>

\* while T::regs().sr().read().eoc() == false {}; then DR is read and returned
ConvertWaitEoc ==
    /\ pc = "wait_eoc"
    /\ regs.eoc
    /\ pc' = "ready"
    /\ UNCHANGED <<regs, ccr, hw, sample_time, vref_count, vrefs, xfer, snap,
                   build, calc, last>>

-----------------------------------------------------------------------------
(* Construction, teardown and the internal reference *)

MAX_FREQUENCY_F2 == 30000000
MAX_FREQUENCY_NOT_F2 == 36000000

MAX_FREQUENCY(b) == IF b.stm32f2 THEN MAX_FREQUENCY_F2 ELSE MAX_FREQUENCY_NOT_F2

\* from_pclk2 with each range of the match starting one too late
from_pclk2_shifted(freq, b) ==
    LET raw_div == freq \div MAX_FREQUENCY(b)
    IN CASE raw_div \in 0..2 -> 2
         [] raw_div \in 3..4 -> 4
         [] raw_div \in 5..6 -> 6
         [] raw_div = 7 -> 8
         [] OTHER -> Panic

\* Prescaler::from_pclk2: the divider (2, 4, 6, 8) or a panic
from_pclk2(freq, b) ==
    LET raw_div == freq \div MAX_FREQUENCY(b)
    IN CASE raw_div \in 0..1 -> 2
         [] raw_div \in 2..3 -> 4
         [] raw_div \in 4..5 -> 6
         [] raw_div \in 6..7 -> 8
         [] OTHER -> Panic

\* bus clocks (PCLK2, Hz) handed to Adc::new(): the multiples of both clock
\* limits up to 9x, their neighbours, and 1, 60, 130 and 290 MHz
Pclk2Set ==
    UNION {{k * m - 1, k * m, k * m + 1} :
              k \in 1..9, m \in {MAX_FREQUENCY_F2, MAX_FREQUENCY_NOT_F2}}
      \cup {1000000, 60000000, 130000000, 290000000}

\* Adc::new(): reset, prescaler, power on
New ==
    /\ pc = "uninit"
    /\ \E freq \in Pclk2Set :
          LET presc == from_pclk2(freq, build)
          IN /\ last' = [op |-> "new", adon0 |-> FALSE, ch |-> 0, arg |-> freq]
             /\ IF presc = Panic
                THEN /\ pc' = "aborted"
                     /\ regs' = RegsReset
                     /\ UNCHANGED <<ccr, sample_time>>
                ELSE /\ pc' = "ready"
                     /\ ccr' = [ccr EXCEPT !.adcpre = presc]
                     /\ regs' = [RegsReset EXCEPT !.adon = TRUE]
                     /\ sample_time' = 0
    /\ hw' = HwIdle
    /\ UNCHANGED <<vref_count, vrefs, xfer, snap, build, calc>>

\* Drop for Adc: ADON cleared, peripheral clock disabled
DropAdc ==
    /\ pc = "ready"
    /\ regs' = [regs EXCEPT !.adon = FALSE]
    /\ hw' = HwIdle
    /\ pc' = "uninit"
    /\ last' = Entry("drop", 0, 0)
    /\ UNCHANGED <<ccr, sample_time, vref_count, vrefs, xfer, snap, build, calc>>

\* update_vref(op): the counter moves by op, TSVREFE follows "counter nonzero"
update_vref(c, count, op) ==
    [ccr |-> [c EXCEPT !.tsvrefe = (count + op > 0)], count |-> count + op]

EnableVref ==
    /\ pc = "ready"
    /\ vrefs < MaxVref
    /\ LET u == update_vref(ccr, vref_count, 1)
       IN /\ ccr' = u.ccr
          /\ vref_count' = u.count
    /\ vrefs' = vrefs + 1
    /\ last' = Entry("enable_vref", 0, 0)
    /\ UNCHANGED <<pc, regs, hw, sample_time, xfer, snap, build, calc>>

\* Drop for Vref
DropVref ==
    /\ vrefs > 0
    /\ pc # "aborted"
    /\ LET u == update_vref(ccr, vref_count, -1)
       IN /\ ccr' = u.ccr
          /\ vref_count' = u.count
    /\ vrefs' = vrefs - 1
    /\ last' = Entry("drop_vref", 0, 0)
    /\ UNCHANGED <<pc, regs, hw, sample_time, xfer, snap, build, calc>>

enable_temperature(c) == [c EXCEPT !.tsvrefe = TRUE]

EnableTemperature ==
    /\ pc = "ready"
    /\ ccr' = enable_temperature(ccr)
    /\ last' = Entry("enable_temperature", 0, 0)
    /\ UNCHANGED <<pc, regs, hw, sample_time, vref_count, vrefs, xfer, snap,
                   build, calc>>

-----------------------------------------------------------------------------
(* Continuous / DMA sampling *)

\* the register writes of start_read_continuous after the transfer was made,
\* up to the configuration of CR1 and CR2; neither configuration write
\* touches ADON
start_read_continuous_config(r) ==
    LET was_on == is_on(r)
        r1 == IF ~was_on THEN [r EXCEPT !.adon = FALSE] ELSE r
        r2 == [r1 EXCEPT !.scan = TRUE, !.discen = FALSE, !.eocie = TRUE]
    IN [r2 EXCEPT !.cont = TRUE, !.swstart = FALSE, !.dma = TRUE,
                  !.dds = TRUE, !.eocs = TRUE]

\* ... and the closing write, which sets ADON together with SWSTART
start_read_continuous(r) ==
    [start_read_continuous_config(r) EXCEPT !.adon = TRUE, !.swstart = TRUE]

\* stop_continuous_conversion with a modify of ADON in place of the write of
\* CR2, and without the clearing of the DMA-enable bit
stop_continuous_conversion_keeps_dma(r) ==
    [r EXCEPT !.adon = FALSE, !.swstart = FALSE, !.eocie = FALSE]

\* the register writes of stop_continuous_conversion; its closing wait reads
\* ADON back from the register it has just written
stop_continuous_conversion(r) ==
    LET r1 == Cr2Write(r)
        r2 == [r1 EXCEPT !.swstart = FALSE, !.dma = FALSE]
    IN [r2 EXCEPT !.eocie = FALSE]

\* dma::Transfer::new_read_raw: a circular transfer into `data`, enabled
StartReadContinuous ==
    /\ pc = "ready"
    /\ regs' = start_read_continuous(regs)
    /\ hw' = HwAfter(hw, regs', TRUE)
    /\ xfer' = [xfer EXCEPT !.live = TRUE, !.running = TRUE, !.widx = 0]
    /\ last' = [Entry("start_read_continuous", 0, 0) EXCEPT
                   !.adon_at_write = {is_on(start_read_continuous_config(regs))}]
    /\ UNCHANGED <<pc, ccr, sample_time, vref_count, vrefs, snap,
                   build, calc>>

StopContinuousConversion ==
    /\ pc = "ready"
    /\ regs' = stop_continuous_conversion(regs)
    /\ hw' = HwAfter(hw, regs', FALSE)
    /\ last' = Entry("stop_continuous_conversion", 0, 0)
    /\ UNCHANGED <<pc, ccr, sample_time, vref_count, vrefs, xfer, snap,
                   build, calc>>

\* get_dma_buf whose first write also disables the peripheral
get_dma_buf_begin_stops(r) == [r EXCEPT !.swstart = FALSE, !.adon = FALSE]

\* get_dma_buf, first step: SWSTART is cleared and the local array is zeroed
get_dma_buf_begin(r) == [r EXCEPT !.swstart = FALSE]

\* get_dma_buf whose last write sets ADON without SWSTART
get_dma_buf_end_adon_only(r) == [r EXCEPT !.adon = TRUE]

\* get_dma_buf, last step: ADON and SWSTART are set again
get_dma_buf_end(r) == [r EXCEPT !.adon = TRUE, !.swstart = TRUE]

GetDmaBufBegin ==
    /\ pc = "ready"
    /\ xfer.live
    /\ regs' = get_dma_buf_begin(regs)
    /\ hw' = HwAfter(hw, regs', FALSE)
    /\ snap' = NoSnap
    /\ pc' = "copy"
    /\ last' = Entry("get_dma_buf", 0, 0)
    /\ UNCHANGED <<ccr, sample_time, vref_count, vrefs, xfer,
                   build, calc>>

\* buf.copy_from_slice(&data[..]), one element at a time
GetDmaBufCopy ==
    /\ pc = "copy"
    /\ snap.idx < BufLen
    /\ snap' = [buf |-> [snap.buf EXCEPT ![snap.idx] = xfer.buf[snap.idx]],
                idx |-> snap.idx + 1]
    /\ UNCHANGED <<pc, regs, ccr, hw, sample_time, vref_count, vrefs, xfer,
                   build, calc, last>>

\* if !transfer.is_running() { transfer.request_restart() }, then the restart
\* of the conversions and the return of the copy
GetDmaBufEnd ==
    /\ pc = "copy"
    /\ snap.idx = BufLen
    /\ xfer' = IF ~xfer.running THEN [xfer EXCEPT !.running = TRUE] ELSE xfer
    /\ regs' = get_dma_buf_end(regs)
    /\ hw' = HwAfter(hw, regs', TRUE)
    /\ pc' = "ready"
    /\ UNCHANGED <<ccr, sample_time, vref_count, vrefs, snap,
                   build, calc, last>>

-----------------------------------------------------------------------------
(* 32-bit unsigned arithmetic                                              *)
(* A value is a sequence of eight base-256 digits, least significant       *)
(* first, so that a product that leaves 32 bits can be told from one that  *)
(* fits; a u32 is a value whose digits 5..8 are zero.                      *)

BigZero == <<0, 0, 0, 0, 0, 0, 0, 0>>

\* n: a natural below 2^31
BigFromNat(n) ==
    [i \in 1..Len(BigZero) |->
        CASE i = 1 -> n % 256
          [] i = 2 -> (n \div 256) % 256
          [] i = 3 -> (n \div 65536) % 256
          [] i = 4 -> n \div 16777216
          [] OTHER -> 0]

BigFitsU32(a) == \A i \in 5..Len(BigZero) : a[i] = 0

\* the low 32 bits: what a wrapping u32 operation keeps
BigWrapU32(a) == [i \in 1..Len(BigZero) |-> IF i <= 4 THEN a[i] ELSE 0]

\* a: a value below 2^31
BigToNat(a) == a[1] + 256 * a[2] + 65536 * a[3] + 16777216 * a[4]

BigFitsNat(a) == BigFitsU32(a) /\ a[4] < 128

RECURSIVE BigConv(_, _, _, _)
BigConv(a, b, i, j) ==
    IF j > i THEN 0 ELSE a[j] * b[i - j + 1] + BigConv(a, b, i, j + 1)

RECURSIVE BigCarry(_, _, _)
BigCarry(raw, i, carry) ==
    IF i > Len(raw) THEN <<>>
    ELSE <<(raw[i] + carry) % 256>>
            \o BigCarry(raw, i + 1, (raw[i] + carry) \div 256)

\* a * b (the operands used stay below 2^64)
BigMul(a, b) == BigCarry([i \in 1..Len(BigZero) |-> BigConv(a, b, i, 1)], 1, 0)

RECURSIVE BigDivFrom(_, _, _, _)
BigDivFrom(a, d, i, rem) ==
    IF i = 0 THEN <<>>
    ELSE BigDivFrom(a, d, i - 1, (rem * 256 + a[i]) % d)
            \o <<(rem * 256 + a[i]) \div d>>

\* a / d truncated, for a divisor 0 < d < 2^23
BigDivNat(a, d) ==
    LET q == BigDivFrom(a, d, Len(BigZero), 0)
    IN [i \in 1..Len(BigZero) |-> q[i]]

\* a - b for a >= b, both below 2^31; a < b otherwise
BigLess(a, b) ==
    \E i \in 1..Len(BigZero) :
        /\ a[i] < b[i]
        /\ \A j \in (i + 1)..Len(BigZero) : a[j] = b[j]

\* result of a u32 computation: a value, or a panic
Value(v) == [panic |-> FALSE, val |-> v]
NoValue == [panic |-> TRUE, val |-> BigZero]

\* a u32 multiplication: it wraps, or panics in a build with overflow checks
MulU32(a, b, checks) ==
    IF ~BigFitsU32(BigMul(a, b)) /\ checks THEN NoValue
    ELSE Value(BigWrapU32(BigMul(a, b)))

-----------------------------------------------------------------------------
(* Calibration *)

ADC_MAX == 4095
CALIBRATION_UV == 3000000

\* Vref::calibrated_value
calibrated_value == ADC_MAX

\* Vref::calibrate: the reference code is the fixed one, the measured code is
\* what read() returned
calibrate(vref_val) == [vref_cal |-> calibrated_value, vref_val |-> vref_val]

\* Calibration::vdda_uv: (CALIBRATION_UV * vref_cal) / vref_val in u32
vdda_uv(c, checks) ==
    LET prod == MulU32(BigFromNat(CALIBRATION_UV), BigFromNat(c.vref_cal), checks)
    IN IF prod.panic \/ c.vref_val = 0 THEN NoValue
       ELSE Value(BigDivNat(prod.val, c.vref_val))

\* Resolution::to_max_count: 2^bits - 1 for 12, 10, 8 and 6 bits
to_max_count(res) ==
    CASE res = 0 -> 4095
      [] res = 1 -> 1023
      [] res = 2 -> 255
      [] res = 3 -> 63

\* the body of cal_uv with the multiplication before the division
cal_uv_of_multiply_first(v, raw, res, checks) ==
    LET prod == MulU32(v, BigFromNat(raw), checks)
    IN IF prod.panic THEN NoValue
       ELSE Value(BigDivNat(prod.val, to_max_count(res)))

\* the body of cal_uv on the value v of vdda_uv(): (v / max_count) * raw
cal_uv_of(v, raw, res, checks) ==
    MulU32(BigDivNat(v, to_max_count(res)), BigFromNat(raw), checks)

\* Calibration::cal_uv
cal_uv(c, raw, res, checks) ==
    IF vdda_uv(c, checks).panic THEN NoValue
    ELSE cal_uv_of(vdda_uv(c, checks).val, raw, res, checks)

-----------------------------------------------------------------------------
(* Timing *)

Resolutions == 0..3
SampleTimes == 0..7

\* Adc::get_res_clks, by Res bits: 12, 10, 8, 6 bit
get_res_clks(res) ==
    CASE res = 0 -> 12
      [] res = 1 -> 11
      [] res = 2 -> 9
      [] res = 3 -> 7

\* Adc::get_sample_time_clks, by SampleTime bits
get_sample_time_clks(st) ==
    CASE st = 0 -> 3
      [] st = 1 -> 15
      [] st = 2 -> 28
      [] st = 3 -> 56
      [] st = 4 -> 84
      [] st = 5 -> 112
      [] st = 6 -> 144
      [] st = 7 -> 480

\* Adc::sample_time_for_us at resolution res and ADC clock freq (Hz); us is a
\* u32 value; the result is the SampleTime bits, or a panic
sample_time_for_us(us, res, freq, checks) ==
    LET res_clks == get_res_clks(res)
        prod == MulU32(us, BigFromNat(freq), checks)
        us_clks == BigToNat(BigDivNat(prod.val, 1000000))
        clks == IF us_clks < res_clks THEN 0 ELSE us_clks - res_clks
    IN IF prod.panic THEN Panic
       ELSE CASE clks \in 0..3 -> 0
              [] clks \in 4..15 -> 1
              [] clks \in 16..28 -> 2
              [] clks \in 29..56 -> 3
              [] clks \in 57..84 -> 4
              [] clks \in 85..112 -> 5
              [] clks \in 113..144 -> 6
              [] OTHER -> 7

\* Adc::us_for_cfg: the product stays below 2^32 for every configuration
us_for_cfg(res, st, freq) ==
    ((get_res_clks(res) + get_sample_time_clks(st)) * 1000000) \div freq

\* measured codes of the internal reference: the ends of the 12-bit range,
\* its middle, and values around them
MeasuredCodes == {0, 1, 2, 1000, 1231, 1232, 2047, 2048, 3000, 4094, 4095}
\* raw codes handed to cal_uv
RawCodes == {0, 1, 63, 255, 1023, 2048, 4095}
\* ADC clock rates (Hz): 1 MHz, the HSI rate, and rates up to the limit
AdcClocks == {1000000, 16000000, 18000000, 30000000, 36000000}

\* each computation is applied once, to inputs drawn here
CalcVddaUv ==
    /\ calc = NoCalc
    /\ \E val \in MeasuredCodes :
          calc' = [op |-> "vdda_uv", c |-> calibrate(val), raw |-> 0, res |-> 0,
                   st |-> 0, freq |-> 0,
                   out |-> vdda_uv(calibrate(val), build.overflow_checks),
                   st_out |-> 0]
    /\ UNCHANGED <<pc, regs, ccr, hw, sample_time, vref_count, vrefs, xfer,
                   snap, build, last>>

CalcCalUv ==
    /\ calc = NoCalc
    /\ \E val \in MeasuredCodes, res \in Resolutions :
       \E raw \in {x \in RawCodes : x <= to_max_count(res)} :
          calc' = [op |-> "cal_uv", c |-> calibrate(val), raw |-> raw,
                   res |-> res, st |-> 0, freq |-> 0,
                   out |-> cal_uv(calibrate(val), raw, res, build.overflow_checks),
                   st_out |-> 0]
    /\ UNCHANGED <<pc, regs, ccr, hw, sample_time, vref_count, vrefs, xfer,
                   snap, build, last>>

\* sample_time_for_us(us_for_cfg(res, st)) with res the current resolution
CalcRoundTrip ==
    /\ calc = NoCalc
    /\ \E res \in Resolutions, st \in SampleTimes, freq \in AdcClocks :
          calc' = [op |-> "round_trip", c |-> calibrate(0), raw |-> 0,
                   res |-> res, st |-> st, freq |-> freq,
                   out |-> Value(BigFromNat(us_for_cfg(res, st, freq))),
                   st_out |-> sample_time_for_us(
                                 BigFromNat(us_for_cfg(res, st, freq)),
                                 res, freq, build.overflow_checks)]
    /\ UNCHANGED <<pc, regs, ccr, hw, sample_time, vref_count, vrefs, xfer,
                   snap, build, last>>

\* sequence positions of the first AssertLen places, each programmed once by
\* set_sample_sequence and once as the last entry of a list handed to
\* set_channel_sample_sequence, on the register block as it is after new();
\* the other entries of the list are channel 0, which the slots already hold
CalcSlots ==
    /\ calc = NoCalc
    /\ \E p \in 1..AssertLen, ch \in Channels \ {0} :
          calc' = [op |-> "slots", p |-> p, ch |-> ch,
                   single |-> set_sample_sequence(regs, p, ch, 0),
                   bulk |-> set_channel_sample_sequence(
                               regs, [i \in 1..p |-> IF i = p THEN ch ELSE 0],
                               build.overflow_checks)]
    /\ UNCHANGED <<pc, regs, ccr, hw, sample_time, vref_count, vrefs, xfer,
                   snap, build, last>>

\* largest u32
U32Max == <<255, 255, 255, 255, 0, 0, 0, 0>>

\* target times (microseconds) handed to sample_time_for_us
TargetUs ==
    {BigFromNat(n) : n \in {0, 1, 2, 3, 4, 5, 8, 13, 14, 100, 119, 120, 238, 239,
                            4294, 4295, 65535, 1000000}}
      \cup {U32Max}

CalcSampleTimeForUs ==
    /\ calc = NoCalc
    /\ \E us \in TargetUs, res \in Resolutions, freq \in AdcClocks :
          calc' = [op |-> "sample_time_for_us", us |-> us, res |-> res,
                   freq |-> freq,
                   st_out |-> sample_time_for_us(us, res, freq,
                                                 build.overflow_checks)]
    /\ UNCHANGED <<pc, regs, ccr, hw, sample_time, vref_count, vrefs, xfer,
                   snap, build, last>>

-----------------------------------------------------------------------------
(* The converter *)

\* a requested conversion starts: STRT is raised
HwStart ==
    /\ regs.adon
    /\ hw.pending
    /\ hw' = [pending |-> FALSE, busy |-> TRUE]
    /\ regs' = [regs EXCEPT !.strt = TRUE]
    /\ UNCHANGED <<pc, ccr, sample_time, vref_count, vrefs, xfer, snap,
                   build, calc, last>>

\* the stream stores one half-word at its write index, which wraps around the
\* circular buffer
dma_store(x, code) ==
    LET b == [x.buf EXCEPT ![x.widx] = code]
    IN [x EXCEPT !.buf = b, !.widx = (x.widx + 1) % BufLen,
                 !.seen = IF x.seen.complete
                             /\ Cardinality(x.seen.held \cup {b}) <= MaxSeen
                          THEN [complete |-> TRUE, held |-> x.seen.held \cup {b}]
                          ELSE [complete |-> FALSE, held |-> {}]]

\* a conversion ends: DR is loaded, EOC is raised; with DMA requests enabled
\* the running stream stores DR at its write index; in continuous mode the
\* next conversion starts at once
HwEoc ==
    /\ regs.adon
    /\ hw.busy
    /\ \E code \in Codes :
          /\ regs' = [regs EXCEPT !.dr = code, !.eoc = TRUE]
          /\ xfer' = IF regs.dma /\ xfer.live /\ xfer.running
                     THEN dma_store(xfer, code)
                     ELSE xfer
    /\ hw' = [hw EXCEPT !.busy = regs.cont]
    /\ UNCHANGED <<pc, ccr, sample_time, vref_count, vrefs, snap,
                   build, calc, last>>

-----------------------------------------------------------------------------
InitSeq == Constructed

NextSeq ==
    \/ SetSampleTime
    \/ SetSampleSequence
    \/ SetChannelSampleSequence
    \/ StopContinuousConversion

SpecSeq == InitSeq /\ [][NextSeq]_vars

InitCont == Constructed

NextCont ==
    \/ StartReadContinuous
    \/ GetDmaBufBegin
    \/ GetDmaBufCopy
    \/ GetDmaBufEnd
    \/ StopContinuousConversion
    \/ Read
    \/ ConvertStart
    \/ ConvertWaitStrt
    \/ ConvertWaitEoc
    \/ HwStart
    \/ HwEoc

SpecCont == InitCont /\ [][NextCont]_vars

\* single-shot reads, from both power states; the processor keeps executing
\* the call it is in, and the converter starts a requested conversion and
\* completes a running one
InitRead == Constructed

NextRead ==
    \/ Read
    \/ ConvertStart
    \/ ConvertWaitStrt
    \/ ConvertWaitEoc
    \/ HwStart
    \/ HwEoc
    \/ StopContinuousConversion

SpecRead ==
    /\ InitRead
    /\ [][NextRead]_vars
    /\ WF_vars(ConvertStart)
    /\ WF_vars(ConvertWaitStrt)
    /\ WF_vars(ConvertWaitEoc)
    /\ WF_vars(HwStart)
    /\ WF_vars(HwEoc)

InitPower == Unconstructed

NextPower ==
    \/ New
    \/ DropAdc
    \/ SetDefaultSampleTime
    \/ EnableVref
    \/ DropVref
    \/ EnableTemperature

SpecPower == InitPower /\ [][NextPower]_vars

InitCalc == Constructed

NextCalc ==
    \/ CalcVddaUv
    \/ CalcCalUv
    \/ CalcRoundTrip
    \/ CalcSlots
    \/ CalcSampleTimeForUs

SpecCalc == InitCalc /\ [][NextCalc]_vars

-----------------------------------------------------------------------------
(* Sequence length *)

\* C1 (as stated): over the operations that program the conversion sequence
\* (set_sample_sequence, set_channel_sample_sequence), the length field L
\* after the operation is never lower than L before it.
C1_LengthOnlyGrows ==
    [][last'.op \in {"set_sample_sequence", "set_channel_sample_sequence", "read"}
          => regs'.l >= regs.l]_vars

\* C1 (amended): a set_sample_sequence call never lowers L and leaves it at
\* least at the position it programmed (zero-based); a
\* set_channel_sample_sequence call that returns sets L from its list length
\* alone, whatever L held before.
C1_SetSampleSequenceNeverLowers ==
    [][/\ last'.op = "set_sample_sequence" =>
             /\ regs'.l >= regs.l
             /\ regs'.l >= SequenceToBits(last'.arg)
       /\ (last'.op = "set_channel_sample_sequence" /\ pc' = "ready") =>
             regs'.l = (IF last'.arg = 0 THEN 15 ELSE last'.arg - 1)]_vars

\* position 1 was programmed by set_sample_sequence while L held position 3
C1_Witness ==
    /\ last.op = "set_sample_sequence"
    /\ last.arg = 1
    /\ pc = "ready"
    /\ regs.l = SequenceToBits(3)
    /\ regs.sqr3[2] # 0

-----------------------------------------------------------------------------
(* Power state *)

ConfigOps == {"set_sample_time", "set_sample_sequence", "set_channel_sample_sequence"}

\* C3: set_sample_time, set_sample_sequence and set_channel_sample_sequence
\* each return with ADON equal to its value at entry.
C3_PowerBracketed ==
    (last.op \in ConfigOps /\ pc = "ready") => regs.adon = last.adon0

\* set_sample_time was called with the peripheral enabled for a channel that
\* now holds a sample time other than the reset one, and ADON is set
C3_Witness ==
    /\ last.op = "set_sample_time"
    /\ last.adon0
    /\ pc = "ready"
    /\ regs.adon
    /\ get_channel_sample_time(regs, last.ch) = 1
    /\ sample_time = 1

-----------------------------------------------------------------------------
(* Channel ids outside the lookup range *)

\* C10 (as stated): set_sample_time and set_sample_sequence abort for a channel
\* id outside 0..16, before any sample-time or sequence register is written.
C10_BadChannelAborts ==
    [][(last'.op \in {"set_sample_time", "set_sample_sequence"}
           /\ last'.ch \notin 0..16) =>
          /\ pc' = "aborted"
          /\ regs'.smpr1 = regs.smpr1
          /\ regs'.smpr2 = regs.smpr2
          /\ regs'.sqr1 = regs.sqr1
          /\ regs'.sqr2 = regs.sqr2
          /\ regs'.sqr3 = regs.sqr3
          /\ regs'.l = regs.l]_vars

-----------------------------------------------------------------------------
(* Continuous session *)

\* C2: after stop_continuous_conversion ADON, SWSTART and the DMA-enable bit
\* are clear and the end-of-conversion interrupt is disabled; after
\* start_read_continuous, also when it follows a stop, the session is Running:
\* ADON, SWSTART, CONT and DMA-enable set, scan mode on, the transfer running.
C2_SessionLifecycle ==
    /\ last.op = "stop_continuous_conversion" =>
          /\ ~regs.adon
          /\ ~regs.swstart
          /\ ~regs.dma
          /\ ~regs.eocie
          /\ ~hw.busy
    /\ last.op = "start_read_continuous" =>
          /\ regs.adon
          /\ regs.swstart
          /\ regs.cont
          /\ regs.dma
          /\ regs.scan
          /\ xfer.live
          /\ xfer.running
          /\ hw.pending \/ hw.busy

\* a session wrote into the buffer, was stopped (ADON was clear at entry), and
\* start_read_continuous has just been called again
C2_Witness ==
    /\ last.op = "start_read_continuous"
    /\ ~last.adon0
    /\ xfer.buf[0] # 0
    /\ hw.pending
    /\ ~hw.busy
    /\ regs.adon
    /\ regs.cont
    /\ regs.dma

-----------------------------------------------------------------------------
(* Internal reference *)

\* C4 (as stated): TSVREFE is set if and only if the reference-enable counter
\* is nonzero; the counter equals the number of live Vref handles and is never
\* negative.
C4_ReferenceBitTracksCounter ==
    /\ ccr.tsvrefe <=> (vref_count # 0)
    /\ vref_count = vrefs
    /\ vref_count >= 0

-----------------------------------------------------------------------------
(* Prescaler *)

Divisors == {2, 4, 6, 8}

\* the divisors d with busClock / d <= MAX, and those with busClock / d < MAX
DivisorsWithin(freq, max) == {d \in Divisors : freq <= d * max}
DivisorsBelow(freq, max) == {d \in Divisors : freq < d * max}

Least(S) == CHOOSE d \in S : \A e \in S : d <= e

NewReturned == last.op = "new" /\ pc = "ready"

\* C5 (as stated): where new() does not abort, the prescaler written is the
\* smallest divisor d in {2,4,6,8} with busClock/d <= MAX; with a 36 MHz
\* maximum, 30/60/130/290 MHz select 2/2/4/8.
C5_SmallestDivisor ==
    /\ NewReturned =>
          /\ DivisorsWithin(last.arg, MAX_FREQUENCY(build)) # {}
          /\ ccr.adcpre = Least(DivisorsWithin(last.arg, MAX_FREQUENCY(build)))
    /\ (last.op = "new" /\ ~build.stm32f2) =>
          /\ last.arg = 30000000 => (pc = "ready" /\ ccr.adcpre = 2)
          /\ last.arg = 60000000 => (pc = "ready" /\ ccr.adcpre = 2)
          /\ last.arg = 130000000 => (pc = "ready" /\ ccr.adcpre = 4)
          /\ last.arg = 290000000 => (pc = "ready" /\ ccr.adcpre = 8)

\* C5 (amended): where new() does not abort, the prescaler written is the
\* smallest divisor d in {2,4,6,8} with busClock/d < MAX, strictly, so
\* busClock/d <= MAX always holds; with a 36 MHz maximum, 30/60/130 MHz select
\* 2/2/4 and 290 MHz aborts.
C5_SmallestDivisorBelow ==
    /\ NewReturned =>
          /\ DivisorsBelow(last.arg, MAX_FREQUENCY(build)) # {}
          /\ ccr.adcpre = Least(DivisorsBelow(last.arg, MAX_FREQUENCY(build)))
          /\ last.arg <= ccr.adcpre * MAX_FREQUENCY(build)
    /\ (last.op = "new" /\ ~build.stm32f2) =>
          /\ last.arg = 30000000 => (pc = "ready" /\ ccr.adcpre = 2)
          /\ last.arg = 60000000 => (pc = "ready" /\ ccr.adcpre = 2)
          /\ last.arg = 130000000 => (pc = "ready" /\ ccr.adcpre = 4)
          /\ last.arg = 290000000 => pc = "aborted"

\* new() returned for a bus clock of exactly twice the maximum, where the
\* divisor 2 would have met the maximum, with the divisor 4
C5_Witness ==
    /\ NewReturned
    /\ last.arg = 2 * MAX_FREQUENCY(build)
    /\ ccr.adcpre = 4
    /\ regs.adon

\* C6 (as stated): new() aborts if and only if the bus clock exceeds 8 x MAX;
\* up to and including 8 x MAX it selects a divisor, sets ADON and returns.
C6_AbortsAboveEightMax ==
    last.op = "new" =>
        /\ pc = "aborted" <=> last.arg > 8 * MAX_FREQUENCY(build)
        /\ last.arg <= 8 * MAX_FREQUENCY(build) =>
              /\ pc = "ready"
              /\ ccr.adcpre \in Divisors
              /\ regs.adon

-----------------------------------------------------------------------------
(* Timing round trip *)

\* C7 (as stated): for every resolution, sample time and ADC clock rate,
\* sample_time_for_us(us_for_cfg(resolution, sampleTime)) returns a SampleTime
\* whose clock cost is at least that of sampleTime.
C7_RoundTripRoundsUp ==
    calc.op = "round_trip" =>
        /\ calc.st_out # Panic
        /\ get_sample_time_clks(calc.st_out) >= get_sample_time_clks(calc.st)

-----------------------------------------------------------------------------
(* Calibration arithmetic *)

\* 3,000,000 x referenceCode, exactly
VddaProduct(c) == BigMul(BigFromNat(3000000), BigFromNat(c.vref_cal))

\* C8 (as stated): vdda_uv() returns 3,000,000 x referenceCode / measuredCode
\* for measuredCode in 1..4095, with no 32-bit overflow in the product; for
\* codes 4095 and 4095 it returns 3,000,000, and for a measured code of 2048
\* it returns 6,000,000 within 1.
C8_VddaExact ==
    (calc.op = "vdda_uv" /\ calc.c.vref_val \in 1..4095) =>
        /\ ~calc.out.panic
        /\ BigFitsU32(VddaProduct(calc.c))
        /\ calc.out.val = BigDivNat(VddaProduct(calc.c), calc.c.vref_val)
        /\ (calc.c.vref_cal = 4095 /\ calc.c.vref_val = 4095) =>
              calc.out.val = BigFromNat(3000000)
        /\ calc.c.vref_val = 2048 =>
              calc.out.val \in {BigFromNat(5999999), BigFromNat(6000000),
                                BigFromNat(6000001)}

BigAdd(a, b) == BigCarry([i \in 1..Len(BigZero) |-> a[i] + b[i]], 1, 0)

\* raw x v / maxCode, the multiplication first and exact
RawTimesVdda(v, raw, res) ==
    BigDivNat(BigMul(v, BigFromNat(raw)), to_max_count(res))

CalUvReturned == calc.op = "cal_uv" /\ ~vdda_uv(calc.c, build.overflow_checks).panic

\* C9 (as stated): cal_uv(raw, resolution) returns raw x vdda_uv() /
\* resolutionMaxCode, the multiplication taken before the division; for a
\* vdda_uv() of 3,000,000, cal_uv(2048, 12-bit) is 1,501,831 within 1.
C9_CalUvMultipliesFirst ==
    /\ CalUvReturned =>
          /\ ~calc.out.panic
          /\ calc.out.val =
                RawTimesVdda(vdda_uv(calc.c, build.overflow_checks).val,
                             calc.raw, calc.res)
    /\ (calc.op = "cal_uv" /\ calc.raw = 2048 /\ calc.res = 0) =>
          cal_uv_of(BigFromNat(3000000), calc.raw, calc.res,
                    build.overflow_checks).val
             \in {BigFromNat(1501830), BigFromNat(1501831), BigFromNat(1501832)}

\* C9 (amended): cal_uv(raw, resolution) returns
\* (vdda_uv() / resolutionMaxCode) x raw, the division taken, and truncated,
\* before the multiplication, without overflow for raw in 0..maxCode, and it
\* panics where vdda_uv() panics; the result is at most raw x vdda_uv() /
\* maxCode and falls short of it by less than raw; for a vdda_uv() of
\* 3,000,000, cal_uv(2048, 12-bit) is 732 x 2048 = 1,499,136.
C9_CalUvDividesFirst ==
    /\ (calc.op = "cal_uv" /\ ~CalUvReturned) => calc.out.panic
    /\ CalUvReturned =>
          LET v == vdda_uv(calc.c, build.overflow_checks).val
              q == BigDivNat(v, to_max_count(calc.res))
              ideal == RawTimesVdda(v, calc.raw, calc.res)
          IN /\ ~calc.out.panic
             /\ BigFitsU32(BigMul(q, BigFromNat(calc.raw)))
             /\ calc.out.val = BigMul(q, BigFromNat(calc.raw))
             /\ BigFitsNat(v) =>
                   BigToNat(calc.out.val) =
                      (BigToNat(v) \div to_max_count(calc.res)) * calc.raw
             /\ ~BigLess(ideal, calc.out.val)
             /\ calc.raw > 0 =>
                   BigLess(ideal, BigAdd(calc.out.val, BigFromNat(calc.raw)))
    /\ (calc.op = "cal_uv" /\ calc.raw = 2048 /\ calc.res = 0) =>
          cal_uv_of(BigFromNat(3000000), calc.raw, calc.res,
                    build.overflow_checks) = Value(BigFromNat(1499136))

\* cal_uv returned for raw = 2048 at 12 bit with a value below
\* raw x vdda_uv() / 4095
C9_Witness ==
    /\ CalUvReturned
    /\ calc.raw = 2048
    /\ calc.res = 0
    /\ ~calc.out.panic
    /\ BigLess(calc.out.val,
               RawTimesVdda(vdda_uv(calc.c, build.overflow_checks).val,
                            calc.raw, calc.res))

-----------------------------------------------------------------------------
(* Snapshots of the continuous session *)

\* the session is Running: peripheral enabled in continuous mode with DMA
\* requests, the transfer running
Running == regs.adon /\ regs.cont /\ regs.dma /\ xfer.live /\ xfer.running

\* C11: get_dma_buf is not atomic with respect to the stream.  Its first write
\* clears SWSTART only: on a Running session it leaves ADON, CONT and the
\* DMA-enable bit set, the transfer running and the conversion in progress,
\* so the stream keeps storing into the buffer while it is copied.  (The torn
\* snapshot this allows is C11_Witness.)
C11_CopyNotAtomic ==
    [][(pc = "ready" /\ pc' = "copy" /\ Running) =>
          /\ Running'
          /\ hw' = hw
          /\ xfer' = xfer
          /\ hw.busy => ENABLED HwEoc]_vars

\* get_dma_buf returned, on a Running session, a snapshot that the
\* destination buffer has held at no instant
C11_Witness ==
    /\ pc = "ready"
    /\ last.op = "get_dma_buf"
    /\ last.adon0
    /\ Running
    /\ xfer.seen.complete
    /\ snap.buf \notin xfer.seen.held

\* C17: get_dma_buf on a Running session makes no state transition: no step of
\* it changes the DMA-enable, CONT or scan bit or stops the transfer, and on
\* return ADON and SWSTART are set, the transfer is running, and a conversion
\* is requested or in progress.
C17_SnapshotKeepsRunning ==
    [][/\ ((pc = "ready" /\ pc' = "copy") \/ pc = "copy") =>
             /\ regs'.dma = regs.dma
             /\ regs'.cont = regs.cont
             /\ regs'.scan = regs.scan
             /\ xfer.running => xfer'.running
       /\ (pc = "copy" /\ pc' = "ready" /\ last.adon0 /\ regs.cont /\ regs.dma) =>
             /\ regs'.adon
             /\ regs'.swstart
             /\ Running'
             /\ hw'.pending \/ hw'.busy]_vars

\* get_dma_buf returned a copy holding converted data on a Running session,
\* which is still Running
C17_Witness ==
    /\ pc = "ready"
    /\ last.op = "get_dma_buf"
    /\ last.adon0
    /\ Running
    /\ regs.swstart
    /\ regs.scan
    /\ snap.buf[0] # 0
    /\ hw.pending

-----------------------------------------------------------------------------
(* Stopping the continuous session *)

\* C19 (as stated): stop_continuous_conversion clears ADON, SWSTART and the
\* DMA-enable bit in CR2 and leaves CONT, DDS and EOCS as they were; in CR1 it
\* clears EOCIE only; ADON reads back clear, so its final wait ends.
C19_StopChangesNamedBitsOnly ==
    [][(pc = "ready" /\ last'.op = "stop_continuous_conversion") =>
          /\ ~regs'.adon
          /\ ~regs'.swstart
          /\ ~regs'.dma
          /\ regs'.cont = regs.cont
          /\ regs'.dds = regs.dds
          /\ regs'.eocs = regs.eocs
          /\ ~regs'.eocie
          /\ regs'.scan = regs.scan
          /\ regs'.discen = regs.discen
          /\ regs'.res = regs.res]_vars

\* C20 (as stated): once stop_continuous_conversion has returned, ADON and
\* SWSTART stay clear until the next start_read_continuous or read; a
\* get_dma_buf call on the stopped session (ADON clear at its entry) returns
\* with both still clear.
C20_StoppedIsStable ==
    /\ last.op = "stop_continuous_conversion" =>
          (~regs.adon /\ ~regs.swstart)
    /\ (last.op = "get_dma_buf" /\ ~last.adon0) =>
          (~regs.adon /\ ~regs.swstart /\ ~hw.pending /\ ~hw.busy)

-----------------------------------------------------------------------------
(* Writes made with the peripheral enabled *)

\* C12 (as stated): every write of a sample-time field by set_sample_time or
\* set_sample_sequence, called with the peripheral enabled or disabled, is
\* made while ADON is 0.
C12_SampleTimeWrittenWhileOff ==
    last.op \in {"set_sample_time", "set_sample_sequence"} =>
        TRUE \notin last.adon_at_write

\* C13 (as stated): start_read_continuous writes SCAN/DISCEN/EOCIE and
\* CONT/SWSTART/DMA/DDS/EOCS while ADON is 0, whether the peripheral was
\* enabled at entry or not, and sets ADON together with SWSTART after them.
C13_ConfiguredWhileOff ==
    last.op = "start_read_continuous" =>
        /\ last.adon_at_write = {FALSE}
        /\ regs.adon
        /\ regs.swstart

-----------------------------------------------------------------------------
(* Sequence slots *)

\* the bank of a sequence position and the position's offset inside it
Bank(p) ==
    IF p <= Sqr3Len THEN "sqr3"
    ELSE IF p <= Sqr3Len + Sqr2Len THEN "sqr2" ELSE "sqr1"
Offset(p) ==
    IF p <= Sqr3Len THEN p - 1
    ELSE IF p <= Sqr3Len + Sqr2Len THEN p - 1 - Sqr3Len
    ELSE p - 1 - Sqr3Len - Sqr2Len

\* the slots in which the register block r1 differs from r0
SlotsWritten(r0, r1) ==
    {<<"sqr3", i>> : i \in {j \in 0..(Sqr3Len - 1) : r1.sqr3[j] # r0.sqr3[j]}}
      \cup {<<"sqr2", i>> : i \in {j \in 0..(Sqr2Len - 1) : r1.sqr2[j] # r0.sqr2[j]}}
      \cup {<<"sqr1", i>> : i \in {j \in 0..(Sqr1Len - 1) : r1.sqr1[j] # r0.sqr1[j]}}

\* C14 (as stated): for every position p in 1..8 and channel c,
\* set_sample_sequence(p, c) and set_channel_sample_sequence, for the p-th
\* entry of its list, write the same slot: the one of p's bank at p's offset
\* inside the bank.
C14_SameSlots ==
    calc.op = "slots" =>
        /\ ~calc.single.panic
        /\ ~calc.bulk.panic
        /\ SlotsWritten(regs, calc.single.regs) = {<<Bank(calc.p), Offset(calc.p)>>}
        /\ SlotsWritten(regs, calc.bulk.regs) = {<<Bank(calc.p), Offset(calc.p)>>}

\* C15 (as stated): set_channel_sample_sequence aborts for every list longer
\* than 8 entries; for every list of at most 8 entries it returns with L equal
\* to the list length minus one, inside 0..15.
C15_LengthFromList ==
    last.op = "set_channel_sample_sequence" =>
        IF last.arg > AssertLen
        THEN pc = "aborted"
        ELSE /\ pc = "ready"
             /\ regs.l = last.arg - 1
             /\ regs.l \in 0..15

-----------------------------------------------------------------------------
(* Sample time for a target time *)

\* targetUs x adcClockHz / 1,000,000, exactly
ClocksFor(us, freq) == BigDivNat(BigMul(us, BigFromNat(freq)), 1000000)

\* the SampleTime of least clock cost among those of cost >= clks, or the
\* longest one
Smallest(clks) ==
    IF \E st \in SampleTimes : get_sample_time_clks(st) >= clks
    THEN CHOOSE st \in SampleTimes :
            /\ get_sample_time_clks(st) >= clks
            /\ \A t \in SampleTimes :
                  get_sample_time_clks(t) >= clks =>
                     get_sample_time_clks(st) <= get_sample_time_clks(t)
    ELSE 7

\* what C16 says sample_time_for_us returns
SmallestFor(us, res, freq) ==
    IF ~BigFitsNat(ClocksFor(us, freq)) THEN 7
    ELSE IF BigToNat(ClocksFor(us, freq)) <= get_res_clks(res) THEN Smallest(0)
    ELSE Smallest(BigToNat(ClocksFor(us, freq)) - get_res_clks(res))

\* C16 (as stated): for every targetUs representable in 32 bits,
\* sample_time_for_us returns the smallest SampleTime whose clock cost is >=
\* max(0, targetUs x adcClockHz / 1,000,000 - overhead clocks), or the longest
\* one when none suffices; the cost of the result never decreases as targetUs
\* increases.
C16_SmallestSufficient ==
    calc.op = "sample_time_for_us" =>
        /\ calc.st_out # Panic
        /\ calc.st_out = SmallestFor(calc.us, calc.res, calc.freq)
        /\ \A us \in TargetUs :
              BigLess(us, calc.us) =>
                 LET st == sample_time_for_us(us, calc.res, calc.freq,
                                              build.overflow_checks)
                 IN /\ st # Panic
                    /\ get_sample_time_clks(st) <= get_sample_time_clks(calc.st_out)

-----------------------------------------------------------------------------
(* Single-shot conversion *)

InConvert == pc \in {"convert", "wait_strt", "wait_eoc"}

\* the order of a single-shot read, step by step
ReadInOrder ==
    /\ (pc = "ready" /\ pc' = "convert") =>
          /\ regs'.l = 0
          /\ regs'.sqr3[0] = last'.ch
          /\ ~regs'.eoc
          /\ regs'.adon = regs.adon
          /\ regs'.swstart = regs.swstart
    /\ (pc = "convert" /\ pc' # pc) =>
          /\ pc' = "wait_strt"
          /\ regs'.eoc = regs.eoc
          /\ regs'.adon
          /\ regs'.swstart
    /\ (pc = "wait_strt" /\ pc' # pc) =>
          (regs.strt /\ pc' = "wait_eoc")
    /\ (pc = "wait_eoc" /\ pc' # pc) =>
          (regs.strt /\ regs.eoc /\ pc' = "ready" /\ regs' = regs)
    /\ (InConvert /\ ~regs.eoc /\ regs'.eoc) =>
          (regs.adon /\ hw.busy /\ pc' = pc)
    /\ (InConvert /\ ~regs.strt /\ regs'.strt) =>
          (regs.adon /\ hw.pending /\ pc' = pc)

\* C18: read(channel) programs the one-element sequence holding that channel
\* and clears EOC, and only then sets ADON and SWSTART; the call leaves its
\* first wait only with STRT set and returns only from its second wait, with
\* EOC set; the flags are raised by the converter alone, so the call does not
\* return unless the converter raises them; with a converter that starts the
\* requested conversion and completes it, the call returns.
C18_SingleShot ==
    /\ [][ReadInOrder]_vars
    /\ InConvert ~> (pc = "ready" /\ regs.strt /\ regs.eoc)

\* read of channel 17, called with the peripheral disabled, has returned a
\* converted code
C18_Witness ==
    /\ pc = "ready"
    /\ last.op = "read"
    /\ ~last.adon0
    /\ last.ch = 17
    /\ regs.l = 0
    /\ regs.sqr3[0] = 17
    /\ regs.adon
    /\ regs.strt
    /\ regs.eoc
    /\ regs.dr # 0

====
